---- MODULE Spec2Model ----
(***************************************************************************)
(* Productivity planner (app_multiuser.py, with app.py as the single-user  *)
(* variant of the same functions): the users, tasks, goals, daily_entries  *)
(* and achievements tables, the task and goal operations, the streak       *)
(* computation, the achievement evaluation, the daily journal, the         *)
(* deletion of a user by the administrator, the accounts with login and    *)
(* registration, the session state of a browser session, and two           *)
(* operations of one owner that run at the same time.                      *)
(*                                                                         *)
(* A table is a bag of rows.  The SERIAL id of a row and the columns that   *)
(* no modelled query reads or writes differently per row (title,           *)
(* description, category, priority, due_date, estimated_hours, tags) are   *)
(* not represented; an operation that names a row by its id names a row    *)
(* of the bag.  Timestamps are day numbers: every query of the model reads  *)
(* DATE(completed_at) or compares completed_at with a date.  The store     *)
(* executes each statement as written and DATE() yields the 'YYYY-MM-DD'    *)
(* string that calculate_streak parses, or None for a NULL timestamp.      *)
(***************************************************************************)
EXTENDS Bags, FiniteSets, Integers, Sequences, TLC

\* ------------------------------------------------------------------ bounds
\* the day on which the modelled session starts
Day0 == 120
\* number of day changes in a behaviour
MaxTicks == 1
\* number of operations in a behaviour
MaxSteps == 2
\* pending tasks in the store when the session starts
SeedPending == 2
\* active goals in the store when the session starts
SeedGoals == 1
\* the session works on the tasks completed at most this many days before
\* it started, and on the tasks without a completion timestamp
PickWindow == 1
\* the streak is computed for completions on the last StreakWindow days,
\* at most StreakLen of them
StreakWindow == 4
StreakLen == 4
\* requests made in a behaviour of IsolationSpec
IsolationSteps == 1
\* script runs in a behaviour of AuthSpec
AuthSteps == 3

\* ------------------------------------------------------------- vocabulary
Users == {1, 2}
Status == {"pending", "in_progress", "completed"}
\* the progress values the slider is moved to
ProgressInputs == {0, 50, 100}
\* a NULL completed_at
NULL == -1
\* the id of the administrator account that init_database creates
Admin == 3
\* the moods and the texts the journal form is submitted with
Moods == {2, 4}
Texts == {"family", "health"}
\* what is typed into the confirmation box of the admin panel
ConfirmTexts == {"DELETE", "delete", ""}
\* None as a user id and None as a username
NoUser == NULL
NoName == "None"
\* the username of the administrator account, and its password
AdminName == "thedatadude"
AdminPassword == "admin-pw"
\* the usernames and passwords typed into the login and the sign-up form
Usernames == {"alice", "bob", "carol", AdminName}
Passwords == {"alice-pw", "bob-pw", AdminPassword}
\* the two browser tabs of one owner
Tabs == {"tab1", "tab2"}

\* ------------------------------------------------------------------ state
VARIABLES
    today,          \* datetime.now().date() / CURRENT_TIMESTAMP, as a day number
    tasks,          \* bag of [user_id, status, completed_at]
    goals,          \* bag of [user_id, progress, status]
    achievements,   \* bag of [user_id, name, description, icon, earned_at]
    daily_entries,  \* bag of [user_id, entry_date, mood, gratitude]
    users,          \* set of [id, username, password_hash, is_admin]
    session,        \* st.session_state of one browser session
    tabs,           \* the operation each of two browser tabs is running
    result,         \* the last operation: its arguments and how it ended
    peak,           \* per user, the largest number of completed tasks so far
    steps           \* operations performed so far

vars == <<today, tasks, goals, achievements, daily_entries, users, session, tabs, result,
          peak, steps>>

\* ---------------------------------------------------------------- helpers
\* SELECT COUNT(*) FROM B WHERE the row is in S
CountRows(B, S) == BagCardinality([r \in S \cap BagToSet(B) |-> B[r]])

\* INSERT one row / DELETE one row / UPDATE one row
InsertRow(B, r) == B (+) SetToBag({r})
DeleteRow(B, r) == B (-) SetToBag({r})
UpdateRow(B, r, new) == InsertRow(DeleteRow(B, r), new)

\* the last day a behaviour reaches
MaxDay == Day0 + MaxTicks

\* the days of S, most recent first (S holds days of 1..MaxDay)
SortDesc(S) ==
    LET InS(d) == d \in S
    IN SelectSeq([i \in 1..MaxDay |-> MaxDay + 1 - i], InS)

\* ------------------------------------------------------- calculate_streak
\* completed_dates, had the query no status = 'completed' condition
completed_dates_of_every_status(T, u) ==
    LET rows  == {r \in BagToSet(T) : r.user_id = u /\ r.completed_at # NULL}
    IN SortDesc({r.completed_at : r \in rows})

\* the distinct values of DATE(completed_at) of the owner's completed tasks,
\* in the order of ORDER BY completed_at DESC: PostgreSQL (the store of
\* get_connection) puts NULL first under DESC
completed_dates(T, u) ==
    LET rows  == {r \in BagToSet(T) : r.user_id = u /\ r.status = "completed"}
        dates == {r.completed_at : r \in rows}
    IN IF NULL \in dates THEN <<NULL>> \o SortDesc(dates \ {NULL})
       ELSE SortDesc(dates)

\* The for loop of calculate_streak.  Both matching branches leave
\* current_date = task_date - 1 (in the first, task_date = current_date), so
\* when the loop reaches element i without having left, current_date is:
cursor_at(dates, i, now) == IF i = 1 THEN now ELSE dates[i - 1] - 1

\* matches, had the loop no elif branch
matches_without_grace(dates, i, now) ==
    dates[i] = cursor_at(dates, i, now)

\* matches, had the loop a third branch for task_date two days before
\* current_date
matches_with_two_day_grace(dates, i, now) ==
    \/ dates[i] = cursor_at(dates, i, now)
    \/ dates[i] = cursor_at(dates, i, now) - 1
    \/ dates[i] = cursor_at(dates, i, now) - 2

\* element i takes the if or the elif branch
matches(dates, i, now) ==
    \/ dates[i] = cursor_at(dates, i, now)
    \/ dates[i] = cursor_at(dates, i, now) - 1

\* the loop leaves at the first element that is None (strptime raises
\* TypeError) or that takes the else branch (break); streak has then been
\* incremented once for each element before it
streak_loop(dates, now) ==
    LET stops == {i \in 1..Len(dates) :
                     dates[i] = NULL \/ ~matches(dates, i, now)}
        first == CHOOSE i \in stops : \A j \in stops : i <= j
    IN IF stops = {} THEN [raised |-> FALSE, value |-> Len(dates)]
       ELSE [raised |-> dates[first] = NULL, value |-> first - 1]

calculate_streak(T, u, now) ==
    LET dates == completed_dates(T, u)
    IN IF dates = <<>> THEN [raised |-> FALSE, value |-> 0]
       ELSE streak_loop(dates, now)

\* ------------------------------------------------- get_productivity_stats
\* total_tasks, had the query no owner filter
total_tasks_of_every_owner(T, u) == BagCardinality(T)

\* SELECT COUNT(*) FROM tasks WHERE user_id = ?
total_tasks(T, u) == CountRows(T, {r \in BagToSet(T) : r.user_id = u})

\* completed_tasks, had the query no owner filter
completed_tasks_of_every_owner(T, u) ==
    CountRows(T, {r \in BagToSet(T) : r.status = "completed"})

\* SELECT COUNT(*) FROM tasks WHERE user_id = ? AND status = 'completed'
completed_tasks(T, u) ==
    CountRows(T, {r \in BagToSet(T) : r.user_id = u /\ r.status = "completed"})

\* completion_rate, had the expression no guard: the division by zero raises
completion_rate_unguarded(completed, total) ==
    [num |-> completed * 100, den |-> total]

\* (completed_tasks / total_tasks * 100) if total_tasks > 0 else 0, as the
\* fraction num / den
completion_rate(completed, total) ==
    IF total > 0 THEN [num |-> completed * 100, den |-> total]
    ELSE [num |-> 0, den |-> 1]

get_productivity_stats(T, G, u, now) ==
    LET mine      == {r \in BagToSet(T) : r.user_id = u}
        total     == total_tasks(T, u)
        completed == completed_tasks(T, u)
        week      == CountRows(T, {r \in mine : /\ r.status = "completed"
                                                /\ r.completed_at # NULL
                                                /\ r.completed_at >= now - 7})
        streak    == calculate_streak(T, u, now)
        active    == CountRows(G, {g \in BagToSet(G) :
                                      g.user_id = u /\ g.status = "active"})
    IN IF streak.raised THEN [raised |-> TRUE]
       ELSE [raised          |-> FALSE,
             total_tasks     |-> total,
             completed_tasks |-> completed,
             week_completed  |-> week,
             streak          |-> streak.value,
             active_goals    |-> active,
             completion_rate |-> completion_rate(completed, total)]

\* ----------------------------------------------------- check_achievements
\* the icon of a milestone is written by its name: seedling for U+1F331,
\* rocket U+1F680, star U+2B50, hundred U+1F4AF, fire U+1F525, crown U+1F451
milestones == <<
    [threshold |-> 5,   name |-> "First Steps",
     description |-> "Completed 5 tasks",   icon |-> "seedling"],
    [threshold |-> 25,  name |-> "Getting Started",
     description |-> "Completed 25 tasks",  icon |-> "rocket"],
    [threshold |-> 50,  name |-> "Halfway Hero",
     description |-> "Completed 50 tasks",  icon |-> "star"],
    [threshold |-> 100, name |-> "Century Club",
     description |-> "Completed 100 tasks", icon |-> "hundred"],
    [threshold |-> 7,   name |-> "Week Warrior",
     description |-> "7-day streak",        icon |-> "fire"],
    [threshold |-> 30,  name |-> "Monthly Master",
     description |-> "30-day streak",       icon |-> "crown"] >>

\* SELECT * FROM achievements WHERE user_id = ? AND name = ?
existing(A, u, name) == {a \in BagToSet(A) : a.user_id = u /\ a.name = name}

\* earns, had each milestone the basis its description names
earns_by_described_basis(m, stats) ==
    IF m.name \in {"Week Warrior", "Monthly Master"}
    THEN stats.streak >= m.threshold
    ELSE stats.completed_tasks >= m.threshold

\* earns, had the comparisons been made with threshold - 1
earns_one_short(m, stats) ==
    \/ m.threshold <= 50 /\ stats.completed_tasks >= m.threshold - 1
    \/ m.threshold > 50 /\ stats.streak >= m.threshold - 1

\* the condition under which the loop body inserts milestone m
earns(m, stats) ==
    \/ m.threshold <= 50 /\ stats.completed_tasks >= m.threshold
    \/ m.threshold > 50 /\ stats.streak >= m.threshold

NewAchievement(m, u, now) ==
    [user_id |-> u, name |-> m.name, description |-> m.description,
     icon |-> m.icon, earned_at |-> now]

\* award, had the loop no lookup of the existing row
award_without_lookup(A, m, stats, u, now) ==
    IF earns(m, stats) THEN InsertRow(A, NewAchievement(m, u, now)) ELSE A

\* award, had the loop deleted the rows of a milestone no longer earned
award_or_revoke(A, m, stats, u, now) ==
    IF earns(m, stats)
    THEN IF existing(A, u, m.name) = {}
         THEN InsertRow(A, NewAchievement(m, u, now)) ELSE A
    ELSE [a \in BagToSet(A) \ existing(A, u, m.name) |-> A[a]]

\* one iteration of the loop over the milestone list
award(A, m, stats, u, now) ==
    IF existing(A, u, m.name) = {} /\ earns(m, stats)
    THEN InsertRow(A, NewAchievement(m, u, now))
    ELSE A

RECURSIVE award_from(_, _, _, _, _)
award_from(A, i, stats, u, now) ==
    IF i > Len(milestones) THEN A
    ELSE award_from(award(A, milestones[i], stats, u, now), i + 1, stats, u, now)

\* the achievements table after check_achievements(u), and whether it raised
check_achievements(T, G, A, u, now) ==
    LET stats == get_productivity_stats(T, G, u, now)
    IN IF stats.raised THEN [raised |-> TRUE, achievements |-> A]
       ELSE [raised |-> FALSE, achievements |-> award_from(A, 1, stats, u, now)]

\* ------------------------------------------------------- the operations
\* A store is [tasks, goals, achievements]; an operation returns the store
\* it leaves and whether it raised.  Each operation commits its own write
\* before it calls check_achievements.
Store(T, G, A, raised) ==
    [tasks |-> T, goals |-> G, achievements |-> A, raised |-> raised]

NewTask(u) == [user_id |-> u, status |-> "pending", completed_at |-> NULL]
NewGoal(u) == [user_id |-> u, progress |-> 0, status |-> "active"]

add_task(D, u, now) ==
    LET T2 == InsertRow(D.tasks, NewTask(u))
        c  == check_achievements(T2, D.goals, D.achievements, u, now)
    IN Store(T2, D.goals, c.achievements, c.raised)

\* the row that UPDATE tasks SET status = ? [, completed_at = CURRENT_TIMESTAMP]
\* leaves in place of r
status_update(r, new_status, now) ==
    IF new_status = "completed"
    THEN [r EXCEPT !.status = new_status, !.completed_at = now]
    ELSE [r EXCEPT !.status = new_status]

\* SELECT * FROM tasks WHERE user_id = ? [AND status = ?]; status is "" for
\* the call without a status.  The order of the rows is not represented.
get_tasks(T, u, status) ==
    LET rows == {r \in BagToSet(T) :
                    r.user_id = u /\ (status = "" \/ r.status = status)}
    IN [r \in rows |-> T[r]]

\* SELECT * FROM achievements WHERE user_id = ?
get_achievements(A, u) == [a \in {x \in BagToSet(A) : x.user_id = u} |-> A[a]]

\* update_task_status, had its UPDATE named the row by WHERE id = ? alone
update_task_status_by_id_alone(D, u, r, new_status, now) ==
    LET T2 == IF BagIn(r, D.tasks)
              THEN UpdateRow(D.tasks, r, status_update(r, new_status, now))
              ELSE D.tasks
        c  == check_achievements(T2, D.goals, D.achievements, u, now)
    IN Store(T2, D.goals, c.achievements, c.raised)

\* r stands for the row with id task_id
update_task_status(D, u, r, new_status, now) ==
    LET T2 == IF BagIn(r, D.tasks) /\ r.user_id = u
              THEN UpdateRow(D.tasks, r, status_update(r, new_status, now))
              ELSE D.tasks
        c  == check_achievements(T2, D.goals, D.achievements, u, now)
    IN Store(T2, D.goals, c.achievements, c.raised)

\* the Save Changes branch of the edit form of show_tasks
edit_update(r, edit_status) == [r EXCEPT !.status = edit_status]

edit_save(D, u, r, edit_status) ==
    LET T2 == IF BagIn(r, D.tasks) /\ r.user_id = u
              THEN UpdateRow(D.tasks, r, edit_update(r, edit_status))
              ELSE D.tasks
    IN Store(T2, D.goals, D.achievements, FALSE)

delete_task(D, u, r) ==
    LET T2 == IF BagIn(r, D.tasks) /\ r.user_id = u
              THEN DeleteRow(D.tasks, r)
              ELSE D.tasks
    IN Store(T2, D.goals, D.achievements, FALSE)

add_goal(D, u) ==
    Store(D.tasks, InsertRow(D.goals, NewGoal(u)), D.achievements, FALSE)

\* goal_update, had the status been set only on completion
goal_update_never_reverts(g, progress) ==
    [g EXCEPT !.progress = progress,
              !.status = IF progress >= 100 THEN "completed" ELSE g.status]

goal_update(g, progress) ==
    [g EXCEPT !.progress = progress,
              !.status = IF progress >= 100 THEN "completed" ELSE "active"]

update_goal_progress(D, u, g, progress, now) ==
    LET G2 == IF BagIn(g, D.goals) /\ g.user_id = u
              THEN UpdateRow(D.goals, g, goal_update(g, progress))
              ELSE D.goals
        c  == check_achievements(D.tasks, G2, D.achievements, u, now)
    IN Store(D.tasks, G2, c.achievements, c.raised)

\* --------------------------------------------------------- save_daily_entry
NewEntry(u, entry_date, mood, gratitude) ==
    [user_id |-> u, entry_date |-> entry_date, mood |-> mood,
     gratitude |-> gratitude]

\* the rows that conflict with a new row under UNIQUE(user_id, entry_date)
conflicting(E, u, entry_date) ==
    {e \in BagToSet(E) : e.user_id = u /\ e.entry_date = entry_date}

\* save_daily_entry, had the statement been a plain INSERT on a table
\* without the unique constraint
save_daily_entry_appending(E, u, entry_date, mood, gratitude) ==
    InsertRow(E, NewEntry(u, entry_date, mood, gratitude))

\* INSERT OR REPLACE: the conflicting rows are deleted, the new row is
\* inserted.  gratitude stands for the four text columns, written alike.
save_daily_entry(E, u, entry_date, mood, gratitude) ==
    InsertRow([e \in BagToSet(E) \ conflicting(E, u, entry_date) |-> E[e]],
              NewEntry(u, entry_date, mood, gratitude))

\* ------------------------------------------- show_admin_panel: Delete User
\* the five tables the statements work on
Tables(A, E, G, T, U) ==
    [achievements |-> A, daily_entries |-> E, goals |-> G, tasks |-> T,
     users |-> U]

\* the statements of the try block, in the order it executes them
delete_order ==
    <<"pragma", "achievements", "daily_entries", "goals", "tasks", "users">>

\* what the k-th statement leaves of the tables W
delete_statement(W, k, delete_user_id) ==
    LET t == delete_order[k]
    IN IF t = "pragma" THEN W
       ELSE IF t = "users"
       THEN [W EXCEPT !.users = {x \in W.users : x.id # delete_user_id}]
       ELSE [W EXCEPT ![t] =
                [r \in {x \in BagToSet(W[t]) : x.user_id # delete_user_id}
                     |-> W[t][r]]]

\* the tables of the connection after the statements k..n
RECURSIVE delete_statements(_, _, _, _)
delete_statements(W, k, n, delete_user_id) ==
    IF k > n THEN W
    ELSE delete_statements(delete_statement(W, k, delete_user_id),
                           k + 1, n, delete_user_id)

\* close, had each statement been committed as it ran
close_keeping_work(W, W2) == W2

\* the except branch does not commit; conn.close() then discards the work
\* W2 of the connection and the store keeps W
close_uncommitted(W, W2) == W

\* admin_delete_user, had the handler no check against self-deletion
admin_delete_user_allowing_self(W, user_id, is_admin, delete_user_id, confirm_text, fail_at) ==
    LET Outcome(o, W2, n) ==
            [tables |-> W2, outcome |-> o, executed |-> SubSeq(delete_order, 1, n),
             rowcount |->
                 [t \in {delete_order[k] : k \in 2..n} |->
                     IF t = "users"
                     THEN Cardinality({x \in W.users : x.id = delete_user_id})
                     ELSE CountRows(W[t], {x \in BagToSet(W[t]) :
                                              x.user_id = delete_user_id})]]
    IN IF ~is_admin THEN Outcome("denied", W, 0)
       ELSE IF confirm_text # "DELETE" THEN Outcome("unconfirmed", W, 0)
       ELSE IF \A x \in W.users : x.id # delete_user_id
            THEN Outcome("not_found", W, 0)
       ELSE IF fail_at # 0
            THEN Outcome("failed",
                         close_uncommitted(W, delete_statements(W, 1, fail_at - 1,
                                                                delete_user_id)),
                         fail_at - 1)
       ELSE Outcome("deleted",
                    delete_statements(W, 1, Len(delete_order), delete_user_id),
                    Len(delete_order))

\* The Delete User button pressed in the session of user_id, whose
\* session_state.is_admin is is_admin, with username_to_delete naming the
\* account delete_user_id; statement fail_at raises (0: none does).
\* rowcount is cursor.rowcount after each DELETE that ran.
admin_delete_user(W, user_id, is_admin, delete_user_id, confirm_text, fail_at) ==
    LET Outcome(o, W2, n) ==
            [tables |-> W2, outcome |-> o, executed |-> SubSeq(delete_order, 1, n),
             rowcount |->
                 [t \in {delete_order[k] : k \in 2..n} |->
                     IF t = "users"
                     THEN Cardinality({x \in W.users : x.id = delete_user_id})
                     ELSE CountRows(W[t], {x \in BagToSet(W[t]) :
                                              x.user_id = delete_user_id})]]
    IN IF ~is_admin THEN Outcome("denied", W, 0)
       ELSE IF confirm_text # "DELETE" THEN Outcome("unconfirmed", W, 0)
       ELSE IF \A x \in W.users : x.id # delete_user_id
            THEN Outcome("not_found", W, 0)
       ELSE IF delete_user_id = user_id THEN Outcome("self", W, 0)
       ELSE IF fail_at # 0
            THEN Outcome("failed",
                         close_uncommitted(W, delete_statements(W, 1, fail_at - 1,
                                                                delete_user_id)),
                         fail_at - 1)
       ELSE Outcome("deleted",
                    delete_statements(W, 1, Len(delete_order), delete_user_id),
                    Len(delete_order))

\* ------------------------------------------------ the store at the start
\* A history h is the sequence of the days (oldest first) on which user u
\* added a task and completed it at once.  The tasks table after the first
\* i of these completions:
history_tasks(h, u, i) ==
    LET days == {h[j] : j \in 1..i}
        Row(d) == [user_id |-> u, status |-> "completed", completed_at |-> d]
    IN [r \in {Row(d) : d \in days} |->
            Cardinality({j \in 1..i : h[j] = r.completed_at})]

\* the stats check_achievements read in the i-th update_task_status
history_stats(h, u, i) ==
    get_productivity_stats(history_tasks(h, u, i), EmptyBag, u, h[i])

\* the achievements table these calls left: milestone m was inserted by the
\* first call whose stats earned it, which is not before the call that made
\* the completed count (and so the number of distinct dates) m.threshold
history_achievements(h, u) ==
    LET Earns(m, i) == earns(m, history_stats(h, u, i))
        Calls(m)    == m.threshold..Len(h)
        First(m)    == CHOOSE i \in Calls(m) :
                           Earns(m, i) /\ \A j \in m.threshold..(i - 1) : ~Earns(m, j)
        ms          == {milestones[k] : k \in 1..Len(milestones)}
        earned      == {m \in ms : \E i \in Calls(m) : Earns(m, i)}
    IN SetToBag({NewAchievement(m, u, h[First(m)]) : m \in earned})

history_store(h, u) ==
    Store(history_tasks(h, u, Len(h)), EmptyBag, history_achievements(h, u), FALSE)

RECURSIVE add_tasks(_, _, _, _)
add_tasks(D, u, n, now) ==
    IF n = 0 THEN D ELSE add_tasks(add_task(D, u, now), u, n - 1, now)

RECURSIVE add_goals(_, _, _)
add_goals(D, u, n) ==
    IF n = 0 THEN D ELSE add_goals(add_goal(D, u), u, n - 1)

\* n completions on the day before the session / one completion on each of
\* the n days before the session
SameDay(n) == [i \in 1..n |-> Day0 - 1]
DailyRun(n) == [i \in 1..n |-> Day0 - 1 - n + i]

FirstSteps  == milestones[1]
CenturyClub == milestones[4]
WeekWarrior == milestones[5]
MonthlyMaster == milestones[6]

Histories ==
    {SameDay(n) : n \in {0, FirstSteps.threshold - 2, FirstSteps.threshold - 1,
                         WeekWarrior.threshold - 1, CenturyClub.threshold - 1}}
    \cup {DailyRun(CenturyClub.threshold - 1)}

\* user 1 has the history h, SeedPending open tasks and SeedGoals goals;
\* user 2 has nothing yet
seed(h) ==
    add_goals(add_tasks(history_store(h, 1), 1, SeedPending, Day0 - 1),
              1, SeedGoals)

\* ------------------------------------------------------------ the accounts
\* ph.hash(password): an Argon2 hash, which verifies for this password alone
argon2(password) == [scheme |-> "argon2", password |-> password]

\* hashlib.sha256(password.encode()).hexdigest(), the hash of older versions
sha256(password) == [scheme |-> "sha256", password |-> password]

\* ph.verify(stored_hash, password): it returns, raises VerifyMismatchError,
\* or raises another error for a stored hash that is no Argon2 hash
verify(stored_hash, password) ==
    IF stored_hash.scheme # "argon2" THEN "invalid"
    ELSE IF stored_hash = argon2(password) THEN "verified"
    ELSE "mismatch"

\* legacy_match, had login_user no SHA-256 branch
legacy_match_never(stored_hash, password) == FALSE

\* stored_hash == sha256_hash, in either except branch
legacy_match(stored_hash, password) == stored_hash = sha256(password)

\* the id that SERIAL gives the next row (no row of U has been deleted)
next_id(U) ==
    IF U = {} THEN 1
    ELSE 1 + CHOOSE n \in {x.id : x \in U} : \A x \in U : x.id <= n

NewUser(U, username, password, is_admin) ==
    [id |-> next_id(U), username |-> username,
     password_hash |-> argon2(password), is_admin |-> is_admin]

\* init_database, had it inserted the admin account without the lookup
init_database_always_inserting(U) ==
    U \cup {NewUser(U, AdminName, AdminPassword, TRUE)}

\* the users table after init_database (the CREATE TABLE IF NOT EXISTS
\* statements keep the rows)
init_database(U) ==
    IF \E x \in U : x.username = AdminName THEN U
    ELSE U \cup {NewUser(U, AdminName, AdminPassword, TRUE)}

\* register_user: the unique constraint on username makes the INSERT raise
register_user(U, username, password) ==
    IF \E x \in U : x.username = username
    THEN [users |-> U, returned |-> FALSE]
    ELSE [users |-> U \cup {NewUser(U, username, password, FALSE)},
          returned |-> TRUE]

\* login_user: the users table it leaves and the triple it returns
login_user(U, username, password) ==
    LET found  == {x \in U : x.username = username}
        user   == CHOOSE x \in found : TRUE
        Ok(U2) == [users |-> U2,
                   returned |-> <<user.id, username, user.is_admin>>]
        Fail   == [users |-> U, returned |-> <<NoUser, NoName, FALSE>>]
    IN IF found = {} THEN Fail
       ELSE IF verify(user.password_hash, password) = "verified" THEN Ok(U)
       ELSE IF legacy_match(user.password_hash, password)
            THEN Ok((U \ {user})
                    \cup {[user EXCEPT !.password_hash = argon2(password)]})
       ELSE Fail

\* create_admin.py on the users table
create_admin(U) ==
    LET U1       == {[x EXCEPT !.is_admin = FALSE] : x \in U}
        existing_admin == {x \in U1 : x.username = AdminName}
    IN IF existing_admin # {}
       THEN (U1 \ existing_admin)
            \cup {[x EXCEPT !.password_hash = argon2(AdminPassword),
                            !.is_admin = TRUE] : x \in existing_admin}
       ELSE U1 \cup {NewUser(U1, AdminName, AdminPassword, TRUE)}

\* the accounts: alice registered with this version, bob with an older one
\* that stored SHA-256 digests, and the administrator
accounts ==
    {[id |-> 1, username |-> "alice", password_hash |-> argon2("alice-pw"),
      is_admin |-> FALSE],
     [id |-> 2, username |-> "bob", password_hash |-> sha256("bob-pw"),
      is_admin |-> FALSE],
     [id |-> Admin, username |-> AdminName,
      password_hash |-> argon2(AdminPassword), is_admin |-> TRUE]}

\* ------------------------------------------------------- the session state
\* the keys set at the top of the script; stored and remember_me are <<>>
\* while their keys are absent from st.session_state
no_session ==
    [logged_in |-> FALSE, username |-> NoName, user_id |-> NoUser,
     is_admin |-> FALSE, remember_me |-> <<>>, stored |-> <<>>]

\* main: auto-login from the stored credentials
auto_login(s) ==
    IF ~s.logged_in /\ s.stored # <<>>
    THEN [s EXCEPT !.logged_in = TRUE, !.user_id = s.stored[1],
                   !.username = s.stored[2], !.is_admin = s.stored[3],
                   !.remember_me = <<TRUE>>]
    ELSE s

\* show_auth_page: what the login form leaves of the session state s when
\* login_user returned the triple
login_submit(s, returned, remember_me) ==
    IF returned[1] # NoUser
    THEN [logged_in |-> TRUE, username |-> returned[2], user_id |-> returned[1],
          is_admin |-> returned[3], remember_me |-> <<remember_me>>,
          stored |-> IF remember_me THEN returned ELSE s.stored]
    ELSE s

\* logout, had it left the stored credentials in the session state
logout_keeping_credentials(s) ==
    [s EXCEPT !.logged_in = FALSE, !.username = NoName, !.user_id = NoUser,
              !.is_admin = FALSE]

\* main: the Logout button
logout(s) ==
    [s EXCEPT !.logged_in = FALSE, !.username = NoName, !.user_id = NoUser,
              !.is_admin = FALSE, !.stored = <<>>, !.remember_me = <<>>]

\* main: the pages of the navigation menu
nav_options(is_admin) ==
    {"Dashboard", "Tasks", "Goals", "Calendar View", "Daily Journal",
     "Achievements", "Analytics", "AI Assistant"}
    \cup (IF is_admin THEN {"Admin Panel"} ELSE {})

\* no tab is running an operation
idle_tabs == [t \in Tabs |-> [pc |-> "idle"]]

\* each user saved a journal entry on the day before the session
journal ==
    LET Saved(E, u) == save_daily_entry(E, u, Day0 - 1, 2, "family")
    IN Saved(Saved(EmptyBag, 1), 2)

Init ==
    \E h \in Histories :
        LET D == seed(h)
        IN /\ today = Day0
           /\ tasks = D.tasks
           /\ goals = D.goals
           /\ achievements = D.achievements
           /\ daily_entries = journal
           /\ users = accounts
           /\ session = no_session
           /\ tabs = idle_tabs
           /\ result = [op |-> "start", user_id |-> 0, raised |-> FALSE]
           /\ peak = [u \in Users |-> completed_tasks(D.tasks, u)]
           /\ steps = 0

\* ------------------------------------------------------------ the actions
Db == Store(tasks, goals, achievements, FALSE)

\* the operations that end with check_achievements(user_id)
CheckingOps ==
    {"add_task", "update_task_status", "update_goal_progress", "check_achievements"}

\* the names of the achievement rows of user u in A2 that are not in A
newly_awarded(A, A2, u) ==
    {a.name : a \in {x \in BagToSet(A2) : x.user_id = u /\ ~BagIn(x, A)}}

\* the store D is what the operation leaves
Leaves(D) ==
    /\ tasks' = D.tasks
    /\ goals' = D.goals
    /\ achievements' = D.achievements
    /\ peak' = [u \in Users |->
                  IF completed_tasks(D.tasks, u) > peak[u]
                  THEN completed_tasks(D.tasks, u) ELSE peak[u]]
    /\ steps' = steps + 1
    /\ UNCHANGED <<today, daily_entries, users, session, tabs>>

\* the rows of user u the session selects
Picks(B, u) ==
    {r \in BagToSet(B) : /\ r.user_id = u
                         /\ \/ r.completed_at = NULL
                            \/ r.completed_at >= Day0 - PickWindow}

AddTask(u) ==
    /\ steps < MaxSteps
    /\ LET D == add_task(Db, u, today)
       IN /\ Leaves(D)
          /\ result' = [op |-> "add_task", user_id |-> u, raised |-> D.raised,
                        awarded |-> newly_awarded(achievements, D.achievements, u)]

UpdateTaskStatus(u) ==
    /\ steps < MaxSteps
    /\ \E r \in Picks(tasks, u), new_status \in Status :
         LET D == update_task_status(Db, u, r, new_status, today)
         IN /\ Leaves(D)
            /\ result' = [op |-> "update_task_status", user_id |-> u,
                          raised |-> D.raised, row |-> r,
                          new_status |-> new_status, peak_before |-> peak[u],
                          awarded |-> newly_awarded(achievements, D.achievements, u)]

EditSave(u) ==
    /\ steps < MaxSteps
    /\ \E r \in Picks(tasks, u), edit_status \in Status :
         LET D == edit_save(Db, u, r, edit_status)
         IN /\ Leaves(D)
            /\ result' = [op |-> "edit_save", user_id |-> u,
                          raised |-> D.raised, row |-> r,
                          new_status |-> edit_status]

DeleteTask(u) ==
    /\ steps < MaxSteps
    /\ \E r \in Picks(tasks, u) :
         LET D == delete_task(Db, u, r)
         IN /\ Leaves(D)
            /\ result' = [op |-> "delete_task", user_id |-> u,
                          raised |-> D.raised, row |-> r]

AddGoal(u) ==
    /\ steps < MaxSteps
    /\ LET D == add_goal(Db, u)
       IN /\ Leaves(D)
          /\ result' = [op |-> "add_goal", user_id |-> u, raised |-> D.raised]

UpdateGoalProgress(u) ==
    /\ steps < MaxSteps
    /\ \E g \in {x \in BagToSet(goals) : x.user_id = u},
          progress \in ProgressInputs :
         LET D == update_goal_progress(Db, u, g, progress, today)
         IN /\ Leaves(D)
            /\ result' = [op |-> "update_goal_progress", user_id |-> u,
                          raised |-> D.raised, row |-> g, progress |-> progress,
                          awarded |-> newly_awarded(achievements, D.achievements, u)]

CheckAchievements(u) ==
    /\ steps < MaxSteps
    /\ LET c == check_achievements(tasks, goals, achievements, u, today)
       IN /\ achievements' = c.achievements
          /\ result' = [op |-> "check_achievements", user_id |-> u,
                        raised |-> c.raised,
                        repeated |-> result.op \in CheckingOps
                                     /\ result.user_id = u,
                        awarded |-> newly_awarded(achievements, c.achievements, u)]
          /\ steps' = steps + 1
          /\ UNCHANGED <<today, tasks, goals, daily_entries, users, session, tabs, peak>>

\* GetProductivityStats, had calculate_streak stamped the completed tasks
\* that have no completion timestamp before reading the dates
GetProductivityStats_repairing(u) ==
    /\ steps < MaxSteps
    /\ LET Stamp(r) == IF r.user_id = u /\ r.status = "completed"
                          /\ r.completed_at = NULL
                       THEN [r EXCEPT !.completed_at = today] ELSE r
           T2 == [r \in {Stamp(x) : x \in BagToSet(tasks)} |->
                     CountRows(tasks, {x \in BagToSet(tasks) : Stamp(x) = r})]
           s  == get_productivity_stats(T2, goals, u, today)
       IN /\ tasks' = T2
          /\ result' = [op |-> "get_productivity_stats", user_id |-> u,
                        raised |-> s.raised, stats |-> s]
          /\ steps' = steps + 1
          /\ UNCHANGED <<today, goals, achievements, daily_entries, users, session, tabs, peak>>

\* the calls of get_productivity_stats by the pages
GetProductivityStats(u) ==
    /\ steps < MaxSteps
    /\ LET s == get_productivity_stats(tasks, goals, u, today)
       IN /\ result' = [op |-> "get_productivity_stats", user_id |-> u,
                        raised |-> s.raised, stats |-> s]
          /\ steps' = steps + 1
          /\ UNCHANGED <<today, tasks, goals, achievements, daily_entries, users, session, tabs, peak>>

\* midnight passes
Tick ==
    /\ steps < MaxSteps
    /\ today < MaxDay
    /\ today' = today + 1
    /\ result' = [op |-> "tick", user_id |-> 0, raised |-> FALSE]
    /\ steps' = steps + 1
    /\ UNCHANGED <<tasks, goals, achievements, daily_entries, users, session, tabs, peak>>

Next ==
    \/ \E u \in Users : AddTask(u)
    \/ \E u \in Users : UpdateTaskStatus(u)
    \/ \E u \in Users : EditSave(u)
    \/ \E u \in Users : DeleteTask(u)
    \/ \E u \in Users : AddGoal(u)
    \/ \E u \in Users : UpdateGoalProgress(u)
    \/ \E u \in Users : CheckAchievements(u)
    \/ \E u \in Users : GetProductivityStats(u)
    \/ Tick

Spec == Init /\ [][Next]_vars

\* ------------------------------------------- the journal and the accounts
Registered(u) == \E x \in users : x.id = u

\* the Save Journal Entry button of the journal page of user u
SaveDailyEntry(u) ==
    /\ steps < MaxSteps
    /\ \E entry_date \in {today - 1, today}, mood \in Moods, gratitude \in Texts :
         /\ daily_entries' =
                save_daily_entry(daily_entries, u, entry_date, mood, gratitude)
         /\ result' = [op |-> "save_daily_entry", user_id |-> u, raised |-> FALSE,
                       entry_date |-> entry_date, mood |-> mood,
                       gratitude |-> gratitude]
    /\ steps' = steps + 1
    /\ UNCHANGED <<today, tasks, goals, achievements, users, session, tabs, peak>>

\* the Delete User button of the admin panel in the session of user a; the
\* select box offers the accounts read when the page was drawn, of which
\* one may be gone by now.  A statement can fail only when the try block is
\* entered.
AdminDeleteUser(a) ==
    /\ steps < MaxSteps
    /\ \E x \in users, delete_user_id \in Users \cup {Admin},
          confirm_text \in ConfirmTexts, fail_at \in 0..Len(delete_order) :
         /\ x.id = a
         /\ fail_at # 0 => /\ x.is_admin
                           /\ confirm_text = "DELETE"
                           /\ Registered(delete_user_id)
                           /\ delete_user_id # a
         /\ LET W == Tables(achievements, daily_entries, goals, tasks, users)
                d == admin_delete_user(W, a, x.is_admin, delete_user_id,
                                       confirm_text, fail_at)
            IN /\ achievements' = d.tables.achievements
               /\ daily_entries' = d.tables.daily_entries
               /\ goals' = d.tables.goals
               /\ tasks' = d.tables.tasks
               /\ users' = d.tables.users
               /\ result' = [op |-> "delete_user", user_id |-> a,
                             raised |-> FALSE, is_admin |-> x.is_admin,
                             delete_user_id |-> delete_user_id,
                             confirm_text |-> confirm_text,
                             fail_at |-> fail_at, outcome |-> d.outcome,
                             executed |-> d.executed, rowcount |-> d.rowcount]
    /\ steps' = steps + 1
    /\ UNCHANGED <<today, session, tabs, peak>>

AccountNext ==
    \/ \E u \in Users : Registered(u) /\ SaveDailyEntry(u)
    \/ \E a \in Users \cup {Admin} : AdminDeleteUser(a)
    \/ \E u \in Users : Registered(u) /\ AddTask(u)
    \/ \E u \in Users : Registered(u) /\ AddGoal(u)
    \/ \E u \in Users : GetProductivityStats(u)
    \/ Tick

AccountSpec == Init /\ [][AccountNext]_vars

\* ------------------------------------------------ the streak of a history
\* the histories of at most StreakLen completions on the last StreakWindow
\* days
StreakHistories ==
    LET days == (Day0 - StreakWindow + 1)..Day0
        all  == UNION {[1..n -> days] : n \in 0..StreakLen}
    IN {h \in all : \A i \in 1..(Len(h) - 1) : h[i] <= h[i + 1]}

StreakInit ==
    \E h \in StreakHistories :
        LET D == history_store(h, 1)
        IN /\ today = Day0
           /\ tasks = D.tasks
           /\ goals = D.goals
           /\ achievements = D.achievements
           /\ daily_entries = EmptyBag
           /\ users = accounts
           /\ session = no_session
           /\ tabs = idle_tabs
           /\ result = [op |-> "start", user_id |-> 0, raised |-> FALSE]
           /\ peak = [u \in Users |-> completed_tasks(D.tasks, u)]
           /\ steps = 0

StreakNext ==
    \/ \E u \in Users : GetProductivityStats(u)
    \/ Tick

StreakSpec == StreakInit /\ [][StreakNext]_vars

\* ------------------------------------------- a request with a foreign id
\* Both users have tasks and goals.  A request of user a names a task or a
\* goal of another user by its id (the id is a form value of the request).
IsolationInit ==
    \E h \in Histories :
        LET D1 == add_tasks(seed(h), 2, 2, Day0 - 1)
            D2 == update_task_status(D1, 2, NewTask(2), "completed", Day0 - 1)
            D  == add_goals(D2, 2, 1)
        IN /\ today = Day0
           /\ tasks = D.tasks
           /\ goals = D.goals
           /\ achievements = D.achievements
           /\ daily_entries = journal
           /\ users = accounts
           /\ session = no_session
           /\ tabs = idle_tabs
           /\ result = [op |-> "start", user_id |-> 0, raised |-> FALSE]
           /\ peak = [u \in Users |-> completed_tasks(D.tasks, u)]
           /\ steps = 0

UpdateTaskStatusOfOther(a) ==
    /\ steps < MaxSteps
    /\ \E b \in Users \ {a} : \E r \in Picks(tasks, b), new_status \in Status :
         LET D == update_task_status(Db, a, r, new_status, today)
         IN /\ Leaves(D)
            /\ result' = [op |-> "update_task_status", user_id |-> a,
                          raised |-> D.raised, row |-> r,
                          new_status |-> new_status, peak_before |-> peak[a],
                          awarded |-> newly_awarded(achievements, D.achievements, a)]

DeleteTaskOfOther(a) ==
    /\ steps < MaxSteps
    /\ \E b \in Users \ {a} : \E r \in Picks(tasks, b) :
         LET D == delete_task(Db, a, r)
         IN /\ Leaves(D)
            /\ result' = [op |-> "delete_task", user_id |-> a,
                          raised |-> D.raised, row |-> r]

UpdateGoalProgressOfOther(a) ==
    /\ steps < MaxSteps
    /\ \E g \in {x \in BagToSet(goals) : x.user_id # a},
          progress \in ProgressInputs :
         LET D == update_goal_progress(Db, a, g, progress, today)
         IN /\ Leaves(D)
            /\ result' = [op |-> "update_goal_progress", user_id |-> a,
                          raised |-> D.raised, row |-> g, progress |-> progress,
                          awarded |-> newly_awarded(achievements, D.achievements, a)]

\* show_tasks and show_achievements_page read the rows of user u
GetRows(u) ==
    /\ steps < MaxSteps
    /\ result' = [op |-> "get_rows", user_id |-> u, raised |-> FALSE,
                  tasks |-> get_tasks(tasks, u, ""),
                  pending |-> get_tasks(tasks, u, "pending"),
                  achievements |-> get_achievements(achievements, u)]
    /\ steps' = steps + 1
    /\ UNCHANGED <<today, tasks, goals, achievements, daily_entries, users,
                   session, tabs, peak>>

IsolationNext ==
    \/ \E a \in Users : steps < IsolationSteps /\ UpdateTaskStatusOfOther(a)
    \/ \E a \in Users : steps < IsolationSteps /\ DeleteTaskOfOther(a)
    \/ \E a \in Users : steps < IsolationSteps /\ UpdateGoalProgressOfOther(a)
    \/ \E u \in Users : steps < IsolationSteps /\ UpdateTaskStatus(u)
    \/ \E u \in Users : steps < IsolationSteps /\ GetRows(u)

IsolationSpec == IsolationInit /\ [][IsolationNext]_vars

\* ------------------------------------------ requests of two browser tabs
\* Each tab runs one request: the operation commits its own write and closes
\* its connection, then check_achievements opens a connection of its own,
\* reads the statistics, walks the milestone list and commits once.  The
\* steps of the two tabs interleave.  A SELECT of a connection sees what is
\* committed and what the connection itself has inserted.
ConcurrentInit ==
    \E h \in Histories :
        LET D == seed(h)
        IN /\ today = Day0
           /\ tasks = D.tasks
           /\ goals = D.goals
           /\ achievements = D.achievements
           /\ daily_entries = journal
           /\ users = accounts
           /\ session = no_session
           /\ tabs = idle_tabs
           /\ result = [op |-> "start", user_id |-> 0, raised |-> FALSE]
           /\ peak = [u \in Users |-> completed_tasks(D.tasks, u)]
           /\ steps = 0

\* the request of tab t has committed its own write; check_achievements(u)
\* is entered
Entered(t, u, op) ==
    /\ tabs' = [tabs EXCEPT ![t] = [pc |-> "connected", user_id |-> u,
                                     op |-> op, pending |-> EmptyBag]]
    /\ peak' = [v \in Users |->
                  IF completed_tasks(tasks', v) > peak[v]
                  THEN completed_tasks(tasks', v) ELSE peak[v]]
    /\ UNCHANGED <<today, achievements, daily_entries, users, session,
                   result, steps>>

TabAddTask(t, u) ==
    /\ tabs[t].pc = "idle"
    /\ tasks' = InsertRow(tasks, NewTask(u))
    /\ goals' = goals
    /\ Entered(t, u, "add_task")

TabUpdateTaskStatus(t, u) ==
    /\ tabs[t].pc = "idle"
    /\ \E r \in Picks(tasks, u) :
         /\ r.status # "completed"
         /\ tasks' = UpdateRow(tasks, r, status_update(r, "completed", today))
    /\ goals' = goals
    /\ Entered(t, u, "update_task_status")

TabUpdateGoalProgress(t, u) ==
    /\ tabs[t].pc = "idle"
    /\ \E g \in {x \in BagToSet(goals) : x.user_id = u},
          progress \in ProgressInputs :
         goals' = UpdateRow(goals, g, goal_update(g, progress))
    /\ tasks' = tasks
    /\ Entered(t, u, "update_goal_progress")

\* stats = get_productivity_stats(user_id)
TabStats(t) ==
    /\ tabs[t].pc = "connected"
    /\ LET stats == get_productivity_stats(tasks, goals, tabs[t].user_id, today)
       IN tabs' = [tabs EXCEPT ![t] =
                     IF stats.raised
                     THEN [tabs[t] EXCEPT !.pc = "failed"]
                     ELSE [pc |-> "loop", user_id |-> tabs[t].user_id,
                           op |-> tabs[t].op, pending |-> EmptyBag,
                           stats |-> stats, k |-> 1]]
    /\ UNCHANGED <<today, tasks, goals, achievements, daily_entries, users,
                   session, result, peak, steps>>

\* one iteration of the loop: the lookup of the existing row and the INSERT
TabMilestone(t) ==
    /\ tabs[t].pc = "loop"
    /\ tabs[t].k <= Len(milestones)
    /\ LET x       == tabs[t]
           visible == achievements (+) x.pending
           after   == award(visible, milestones[x.k], x.stats, x.user_id, today)
       IN tabs' = [tabs EXCEPT ![t] = [x EXCEPT !.pending = after (-) achievements,
                                                !.k = x.k + 1]]
    /\ UNCHANGED <<today, tasks, goals, achievements, daily_entries, users,
                   session, result, peak, steps>>

\* conn.commit(); conn.close()
TabCommit(t) ==
    /\ tabs[t].pc = "loop"
    /\ tabs[t].k > Len(milestones)
    /\ achievements' = achievements (+) tabs[t].pending
    /\ tabs' = [tabs EXCEPT ![t] = [tabs[t] EXCEPT !.pc = "done"]]
    /\ UNCHANGED <<today, tasks, goals, daily_entries, users, session,
                   result, peak, steps>>

\* abandon_connection, had the abandoned connection committed its inserts
abandon_committing(A, pending) == A (+) pending

\* the achievements table after a connection with uncommitted inserts is
\* dropped without commit: the exception leaves check_achievements before
\* conn.commit()
abandon_connection(A, pending) == A

\* a statement of check_achievements fails (the store is unavailable): the
\* exception leaves the request
TabFail(t) ==
    /\ tabs[t].pc \in {"connected", "loop"}
    /\ achievements' = abandon_connection(achievements, tabs[t].pending)
    /\ tabs' = [tabs EXCEPT ![t] = [tabs[t] EXCEPT !.pc = "failed"]]
    /\ UNCHANGED <<today, tasks, goals, daily_entries, users, session,
                   result, peak, steps>>

ConcurrentNext ==
    \/ \E t \in Tabs, u \in Users : TabAddTask(t, u)
    \/ \E t \in Tabs, u \in Users : TabUpdateTaskStatus(t, u)
    \/ \E t \in Tabs, u \in Users : TabUpdateGoalProgress(t, u)
    \/ \E t \in Tabs : TabStats(t)
    \/ \E t \in Tabs : TabMilestone(t)
    \/ \E t \in Tabs : TabCommit(t)
    \/ \E t \in Tabs : TabFail(t)

ConcurrentSpec == ConcurrentInit /\ [][ConcurrentNext]_vars

\* ------------------------------------------------- accounts and sessions
\* One browser session.  Every run of the script constructs DatabaseManager,
\* which runs init_database, then main.  The users table at the start is the
\* one init_database leaves of an empty store, or the accounts.
AuthInit ==
    /\ today = Day0
    /\ tasks = EmptyBag
    /\ goals = EmptyBag
    /\ achievements = EmptyBag
    /\ daily_entries = EmptyBag
    /\ users \in {init_database({}), accounts}
    /\ session = no_session
    /\ tabs = idle_tabs
    /\ result = [op |-> "start", user_id |-> 0, raised |-> FALSE]
    /\ peak = [u \in Users |-> 0]
    /\ steps = 0

\* what a run leaves alone
AuthFrame ==
    /\ steps' = steps + 1
    /\ UNCHANGED <<today, tasks, goals, achievements, daily_entries, tabs, peak>>

\* a run of the script with nothing clicked: it shows the login page or the
\* application
Rerun ==
    /\ steps < AuthSteps
    /\ users' = init_database(users)
    /\ session' = auto_login(session)
    /\ result' = [op |-> "run", user_id |-> session'.user_id, raised |-> FALSE,
                  before |-> session,
                  shown |-> IF session'.logged_in THEN "app" ELSE "auth_page"]
    /\ AuthFrame

\* the Login button of the login form
LoginSubmit(username, password, remember_me) ==
    /\ steps < AuthSteps
    /\ ~auto_login(session).logged_in
    /\ LET l == login_user(init_database(users), username, password)
       IN /\ users' = l.users
          /\ session' = login_submit(auto_login(session), l.returned, remember_me)
          /\ result' = [op |-> "login", user_id |-> l.returned[1],
                        raised |-> FALSE, before |-> session,
                        username |-> username, password |-> password,
                        remember_me |-> remember_me, returned |-> l.returned]
    /\ AuthFrame

\* the Sign Up button with inputs that pass the checks of the form (the two
\* passwords are equal, six characters or more, the username three or more)
Register(username, password) ==
    /\ steps < AuthSteps
    /\ ~auto_login(session).logged_in
    /\ LET g == register_user(init_database(users), username, password)
       IN /\ users' = g.users
          /\ result' = [op |-> "register", user_id |-> NoUser, raised |-> FALSE,
                        before |-> session, username |-> username,
                        password |-> password, returned |-> g.returned]
    /\ session' = auto_login(session)
    /\ AuthFrame

\* the Logout button of the sidebar
Logout ==
    /\ steps < AuthSteps
    /\ auto_login(session).logged_in
    /\ users' = init_database(users)
    /\ session' = logout(auto_login(session))
    /\ result' = [op |-> "logout", user_id |-> session.user_id,
                  raised |-> FALSE, before |-> session]
    /\ AuthFrame

\* a page chosen in the navigation menu is dispatched
Dispatch(page) ==
    /\ steps < AuthSteps
    /\ auto_login(session).logged_in
    /\ page \in nav_options(auto_login(session).is_admin)
    /\ users' = init_database(users)
    /\ session' = auto_login(session)
    /\ result' = [op |-> "dispatch", user_id |-> session'.user_id,
                  raised |-> FALSE, before |-> session, page |-> page]
    /\ AuthFrame

\* DatabaseManager.init_database, run again
InitDatabase ==
    /\ steps < AuthSteps
    /\ users' = init_database(users)
    /\ result' = [op |-> "init_database", user_id |-> NoUser, raised |-> FALSE,
                  before |-> session]
    /\ session' = session
    /\ AuthFrame

\* the script create_admin.py
CreateAdmin ==
    /\ steps < AuthSteps
    /\ users' = create_admin(users)
    /\ result' = [op |-> "create_admin", user_id |-> NoUser, raised |-> FALSE,
                  before |-> session]
    /\ session' = session
    /\ AuthFrame

Pages == nav_options(TRUE)

AuthNext ==
    \/ Rerun
    \/ \E username \in Usernames, password \in Passwords,
          remember_me \in BOOLEAN : LoginSubmit(username, password, remember_me)
    \/ \E username \in Usernames, password \in Passwords :
          Register(username, password)
    \/ Logout
    \/ \E page \in Pages : Dispatch(page)
    \/ InitDatabase
    \/ CreateAdmin

AuthSpec == AuthInit /\ [][AuthNext]_vars

\* ============================================================== properties
\* user u holds the achievement called name
Held(u, name) == existing(achievements, u, name) # {}

\* number of achievement rows of (u, name) in the table A
Rows(A, u, name) == CountRows(A, existing(A, u, name))

\* the dates on which user u has a completed task
CompletionDates(u) ==
    {r.completed_at : r \in {x \in BagToSet(tasks) :
                                x.user_id = u /\ x.status = "completed"}}

\* C1: every task has a completion timestamp exactly when its status is
\* completed
C1_CompletedAtIffCompleted ==
    \A r \in BagToSet(tasks) :
        (r.completed_at # NULL) <=> (r.status = "completed")

\* C2: a goal is completed exactly when its progress is at least 100; add_goal
\* leaves an active goal with progress 0, and update_goal_progress(goal, p)
\* leaves the goal with progress p, completed if p is 100 and active if not
C2_GoalCompletedIffProgress100 ==
    /\ \A g \in BagToSet(goals) :
           (g.status = "completed") <=> (g.progress >= 100)
    /\ result.op = "add_goal" =>
           BagIn([user_id |-> result.user_id, progress |-> 0,
                  status |-> "active"], goals)
    /\ result.op = "update_goal_progress" =>
           BagIn([user_id |-> result.user_id, progress |-> result.progress,
                  status |-> IF result.progress >= 100
                             THEN "completed" ELSE "active"], goals)

\* a completed goal has been set back below 100
C2_GoalReverted ==
    /\ result.op = "update_goal_progress"
    /\ result.row.status = "completed"
    /\ result.progress < 100
    /\ BagIn([user_id |-> result.user_id, progress |-> result.progress,
              status |-> "active"], goals)

\* C3: the achievements table holds at most one row for each (owner, name)
C3_OneRowPerOwnerAndName ==
    \A a \in BagToSet(achievements) :
        /\ CopiesIn(a, achievements) = 1
        /\ \A b \in BagToSet(achievements) :
               (a.user_id = b.user_id /\ a.name = b.name) => a = b

\* an evaluation has run for an owner who already held a milestone that the
\* stats still earn
C3_EarnedAgain ==
    \E u \in Users :
        /\ result.op \in CheckingOps
        /\ result.user_id = u
        /\ ~result.raised
        /\ \E k \in 1..Len(milestones) :
               /\ Held(u, milestones[k].name)
               /\ earns(milestones[k],
                        get_productivity_stats(tasks, goals, u, today))

\* C4: a check_achievements that directly follows an evaluation for the same
\* owner inserts no row and leaves the achievements table as it was
C4_SecondEvaluationAwardsNothing ==
    [][(result'.op = "check_achievements" /\ result'.repeated) =>
           (achievements' = achievements /\ result'.awarded = {})]_vars

\* the second of two evaluations has run, the first having awarded a row
C4_EvaluatedTwice ==
    /\ result.op = "check_achievements"
    /\ result.repeated
    /\ ~result.raised
    /\ \E a \in BagToSet(achievements) :
           a.user_id = result.user_id /\ a.earned_at = today

\* C5: no operation and no day change removes an achievement row
C5_AchievementsArePermanent ==
    [][\A a \in BagToSet(achievements) :
           CopiesIn(a, achievements') >= CopiesIn(a, achievements)]_vars

\* an owner still holds First Steps after an evaluation that saw fewer
\* completed tasks than its threshold
C5_HeldBelowThreshold ==
    \E u \in Users :
        /\ Held(u, FirstSteps.name)
        /\ completed_tasks(tasks, u) < FirstSteps.threshold
        /\ result.op \in CheckingOps
        /\ result.user_id = u
        /\ ~result.raised

\* C6: First Steps is not held before the owner has had 5 completed tasks; when
\* update_task_status(task, 'completed') brings the count to 5 for the first
\* time the owner holds it, with the seedling icon, after the call; and after
\* the completion of a 6th task there is exactly one such row
C6_FirstStepsAtFiveCompleted ==
    \A u \in Users :
        /\ peak[u] < FirstSteps.threshold => ~Held(u, FirstSteps.name)
        /\ ( /\ result.op = "update_task_status"
             /\ result.user_id = u
             /\ result.new_status = "completed"
             /\ result.peak_before < FirstSteps.threshold
             /\ completed_tasks(tasks, u) = FirstSteps.threshold )
           => /\ Rows(achievements, u, FirstSteps.name) = 1
              /\ \A a \in existing(achievements, u, FirstSteps.name) :
                     a.icon = "seedling"
        /\ ( /\ result.op = "update_task_status"
             /\ result.user_id = u
             /\ result.new_status = "completed"
             /\ completed_tasks(tasks, u) = FirstSteps.threshold + 1 )
           => Rows(achievements, u, FirstSteps.name) = 1

\* C7: Week Warrior and Monthly Master are inserted only when the owner's
\* streak is at least the threshold
C7_StreakMilestonesNeedStreak ==
    [][\A u \in Users : \A m \in {WeekWarrior, MonthlyMaster} :
           (Rows(achievements', u, m.name) > Rows(achievements, u, m.name))
           => calculate_streak(tasks', u, today').value >= m.threshold]_vars

\* C8: after an evaluation for an owner with at least 100 completed tasks the
\* owner holds Century Club
C8_CenturyClubAtHundredCompleted ==
    \A u \in Users :
        ( /\ result.op \in CheckingOps
          /\ result.user_id = u
          /\ ~result.raised
          /\ completed_tasks(tasks, u) >= CenturyClub.threshold )
        => Held(u, CenturyClub.name)

\* C9: rows are inserted only by an evaluation that has computed the stats
\* (it raises before its loop otherwise), at most one per milestone; its loop
\* inserts a milestone the owner does not hold exactly when the completed
\* count (threshold <= 50) or the streak (threshold > 50) is at least the
\* threshold, and none for a milestone the owner holds
C9_BasisChosenByThreshold ==
    [][\A u \in Users : \A k \in 1..Len(milestones) :
           LET m        == milestones[k]
               ran      == /\ result'.op \in CheckingOps
                           /\ result'.user_id = u
                           /\ ~result'.raised
               inserted == Rows(achievements', u, m.name)
                           - Rows(achievements, u, m.name)
               metric   == IF m.threshold <= 50
                           THEN completed_tasks(tasks', u)
                           ELSE calculate_streak(tasks', u, today').value
           IN /\ inserted \in {0, 1}
              /\ ~ran => inserted = 0
              /\ (ran /\ Held(u, m.name)) => inserted = 0
              /\ (ran /\ ~Held(u, m.name)) =>
                     (inserted = 1 <=> metric >= m.threshold)]_vars

\* Century Club, whose threshold is above 50, has been inserted in the session
C9_CenturyClubByStreak ==
    \E u \in Users :
        /\ result.op \in CheckingOps
        /\ result.user_id = u
        /\ CenturyClub.name \in result.awarded
        /\ completed_tasks(tasks, u) >= CenturyClub.threshold

\* C10: when the completion dates of an owner are the n >= 1 consecutive days
\* ending today, or the n consecutive days ending yesterday, calculate_streak
\* returns n, and so does the streak of get_productivity_stats
C10_ConsecutiveRunIsCounted ==
    \A u \in Users :
        LET S == CompletionDates(u)
            n == Cardinality(S)
        IN (n >= 1 /\ \E last \in {today, today - 1} : S = (last - n + 1)..last)
           => /\ calculate_streak(tasks, u, today) = [raised |-> FALSE, value |-> n]
              /\ (result.op = "get_productivity_stats" /\ result.user_id = u)
                     => (~result.raised /\ result.stats.streak = n)

\* the stats have been computed for an owner whose completion dates are two
\* or more consecutive days ending yesterday
C10_GraceRunObserved ==
    \E u \in Users :
        LET S == CompletionDates(u)
            n == Cardinality(S)
        IN /\ n >= 2
           /\ S = (today - n)..(today - 1)
           /\ result.op = "get_productivity_stats"
           /\ result.user_id = u
           /\ result.stats.streak = n

\* C11: calculate_streak returns 0 for an owner without a completed task, and
\* returns 0 when every completion date of the owner is two or more days
\* before today; get_productivity_stats then reports the streak 0
C11_StreakZeroWithoutRecentCompletion ==
    \A u \in Users :
        LET S     == CompletionDates(u)
            stale == S # {} /\ NULL \notin S /\ \A d \in S : d <= today - 2
        IN (S = {} \/ stale)
           => /\ calculate_streak(tasks, u, today) = [raised |-> FALSE, value |-> 0]
              /\ (result.op = "get_productivity_stats" /\ result.user_id = u)
                     => (~result.raised /\ result.stats.streak = 0)

\* the stats have been computed for an owner with several completion dates,
\* the most recent of them two days before today
C11_StaleRunObserved ==
    \E u \in Users :
        LET S == CompletionDates(u)
        IN /\ Cardinality(S) >= 2
           /\ today - 2 \in S
           /\ \A d \in S : d # NULL /\ d <= today - 2
           /\ result.op = "get_productivity_stats"
           /\ result.user_id = u
           /\ result.stats.streak = 0

\* C12: calculate_streak returns the length of the run of consecutive days
\* with a completion that ends today, or yesterday when nothing was
\* completed today: no day of the run is without a completion and the day
\* before the run is
C12_StreakIsConsecutiveRun ==
    \A u \in Users :
        LET S     == CompletionDates(u)
            start == IF today \in S THEN today ELSE today - 1
            run   == {d \in S : d <= start /\ \A e \in d..start : e \in S}
        IN NULL \notin S
           => calculate_streak(tasks, u, today) =
                  [raised |-> FALSE, value |-> Cardinality(run)]

\* C13 as claimed: for an owner without tasks get_productivity_stats returns
\* total_tasks 0, completed_tasks 0, completion_rate 0, streak 0 and
\* active_goals 0
C13_ZeroTasksGiveZeroStats ==
    \A u \in Users :
        (\A r \in BagToSet(tasks) : r.user_id # u)
        => LET s == get_productivity_stats(tasks, goals, u, today)
           IN /\ ~s.raised
              /\ s.total_tasks = 0
              /\ s.completed_tasks = 0
              /\ s.completion_rate.num = 0
              /\ s.streak = 0
              /\ s.active_goals = 0

\* C13: for an owner without tasks get_productivity_stats returns
\* total_tasks 0, completed_tasks 0, completion_rate 0 and streak 0, and as
\* active_goals the number of the owner's active goals
C13_ZeroTasksGiveZeroTaskStats ==
    \A u \in Users :
        (\A r \in BagToSet(tasks) : r.user_id # u)
        => LET s == get_productivity_stats(tasks, goals, u, today)
           IN /\ ~s.raised
              /\ s.total_tasks = 0
              /\ s.completed_tasks = 0
              /\ s.week_completed = 0
              /\ s.completion_rate.num = 0
              /\ s.streak = 0
              /\ s.active_goals =
                     CountRows(goals, {g \in BagToSet(goals) :
                                          g.user_id = u /\ g.status = "active"})
              /\ (result.op = "get_productivity_stats" /\ result.user_id = u)
                     => result.stats = s

\* the stats have been computed for an owner who has an active goal and no
\* task
C13_GoalsWithoutTasks ==
    \E u \in Users :
        /\ \A r \in BagToSet(tasks) : r.user_id # u
        /\ \E g \in BagToSet(goals) : g.user_id = u /\ g.status = "active"
        /\ result.op = "get_productivity_stats"
        /\ result.user_id = u
        /\ result.stats.total_tasks = 0
        /\ result.stats.active_goals = 1

\* C14: for every owner the completed count is at most the total count, in
\* the store and in the stats that get_productivity_stats returns
C14_CompletedAtMostTotal ==
    \A u \in Users :
        /\ completed_tasks(tasks, u) <= total_tasks(tasks, u)
        /\ LET s == get_productivity_stats(tasks, goals, u, today)
           IN ~s.raised => s.completed_tasks <= s.total_tasks
        /\ (result.op = "get_productivity_stats" /\ result.user_id = u
               /\ ~result.raised)
           => result.stats.completed_tasks <= result.stats.total_tasks

\* the stats have been computed for an owner who has completed tasks and
\* tasks that are not completed
C14_SomeCompletedSomeNot ==
    \E u \in Users :
        /\ result.op = "get_productivity_stats"
        /\ result.user_id = u
        /\ ~result.raised
        /\ result.stats.completed_tasks >= 1
        /\ result.stats.completed_tasks < result.stats.total_tasks

\* C15: the completion_rate that get_productivity_stats returns is the
\* fraction completed * 100 / total when the owner has tasks and 0 when the
\* owner has none; its divisor is never 0 and it lies between 0 and 100
C15_CompletionRateGuarded ==
    \A u \in Users :
        LET s     == get_productivity_stats(tasks, goals, u, today)
            mine  == {r \in BagToSet(tasks) : r.user_id = u}
            total == CountRows(tasks, mine)
            done  == CountRows(tasks, {r \in mine : r.status = "completed"})
        IN ~s.raised
           => /\ s.completion_rate.den > 0
              /\ total > 0 => s.completion_rate = [num |-> done * 100, den |-> total]
              /\ total = 0 => s.completion_rate.num = 0
              /\ 0 <= s.completion_rate.num
              /\ s.completion_rate.num <= 100 * s.completion_rate.den
              /\ (result.op = "get_productivity_stats" /\ result.user_id = u)
                     => result.stats.completion_rate = s.completion_rate

\* the rate has been computed for an owner without tasks, and the store
\* holds tasks of another owner
C15_RateOfNoTasks ==
    \E u \in Users :
        /\ result.op = "get_productivity_stats"
        /\ result.user_id = u
        /\ ~result.raised
        /\ result.stats.total_tasks = 0
        /\ result.stats.completion_rate.num = 0
        /\ tasks # EmptyBag

\* C16: in every store state the operations reach, get_productivity_stats
\* returns a stats record and calculate_streak an integer for every owner;
\* neither raises
C16_StatsAlwaysSucceed ==
    \A u \in Users :
        /\ ~calculate_streak(tasks, u, today).raised
        /\ ~get_productivity_stats(tasks, goals, u, today).raised
        /\ (result.op = "get_productivity_stats" /\ result.user_id = u)
               => ~result.raised

\* C17: a call of get_productivity_stats, and with it of calculate_streak,
\* leaves the tasks, goals, daily_entries, achievements and users tables as
\* they were, whether it returns or raises
C17_StatsHaveNoSideEffects ==
    [][result'.op = "get_productivity_stats" =>
           /\ tasks' = tasks
           /\ goals' = goals
           /\ daily_entries' = daily_entries
           /\ achievements' = achievements
           /\ users' = users]_vars

\* the stats have been computed for an owner who has rows in the tasks,
\* goals, daily_entries and achievements tables
C17_StatsOfFilledStore ==
    \E u \in Users :
        /\ result.op = "get_productivity_stats"
        /\ result.user_id = u
        /\ \E r \in BagToSet(tasks) : r.user_id = u
        /\ \E r \in BagToSet(goals) : r.user_id = u
        /\ \E r \in BagToSet(daily_entries) : r.user_id = u
        /\ \E r \in BagToSet(achievements) : r.user_id = u
        /\ Registered(u)

\* C18: the daily_entries table never holds two rows for one (owner, entry
\* date); after save_daily_entry the one row of the saved pair holds the
\* values just saved, and the rows of every other date and of every other
\* owner are as they were
C18_SaveDailyEntryIsUpsert ==
    [][/\ \A e \in BagToSet(daily_entries') :
              /\ CopiesIn(e, daily_entries') = 1
              /\ \A f \in BagToSet(daily_entries') :
                     (e.user_id = f.user_id /\ e.entry_date = f.entry_date)
                     => e = f
       /\ result'.op = "save_daily_entry" =>
              LET saved == NewEntry(result'.user_id, result'.entry_date,
                                    result'.mood, result'.gratitude)
                  Other(e) == \/ e.user_id # saved.user_id
                              \/ e.entry_date # saved.entry_date
              IN /\ CopiesIn(saved, daily_entries') = 1
                 /\ \A e \in BagToSet(daily_entries) \cup BagToSet(daily_entries') :
                        Other(e) =>
                            CopiesIn(e, daily_entries') = CopiesIn(e, daily_entries)
                 /\ UNCHANGED <<tasks, goals, achievements, users>>]_vars

\* an entry has been saved again with another mood and another text, while
\* another owner has an entry for the same date
C18_EntrySavedAgain ==
    /\ result.op = "save_daily_entry"
    /\ result.entry_date = Day0 - 1
    /\ result.mood = 4
    /\ result.gratitude = "health"
    /\ CountRows(daily_entries, conflicting(daily_entries, result.user_id,
                                            result.entry_date)) = 1
    /\ \E e \in BagToSet(daily_entries) :
           e.user_id # result.user_id /\ e.entry_date = result.entry_date

\* C19: a deletion that succeeds has executed the DELETE statements for the
\* achievements, the daily entries, the goals, the tasks and the user row in
\* this order; it leaves no row of the deleted user in any of the five
\* tables and every row of every other user as it was.  A deletion in which
\* a statement fails leaves the five tables as they were.
C19_UserDeletionIsComplete ==
    [][result'.op = "delete_user" =>
           LET gone == result'.delete_user_id
               Kept(B, B2) ==
                   /\ \A r \in BagToSet(B2) : r.user_id # gone
                   /\ \A r \in BagToSet(B) :
                          r.user_id # gone => CopiesIn(r, B2) = CopiesIn(r, B)
                   /\ \A r \in BagToSet(B2) : BagIn(r, B)
           IN /\ result'.outcome = "deleted" =>
                     /\ result'.executed =
                            <<"pragma", "achievements", "daily_entries", "goals",
                              "tasks", "users">>
                     /\ Kept(achievements, achievements')
                     /\ Kept(daily_entries, daily_entries')
                     /\ Kept(goals, goals')
                     /\ Kept(tasks, tasks')
                     /\ users' = {x \in users : x.id # gone}
                     /\ users' # users
              /\ result'.outcome = "failed" =>
                     /\ result'.fail_at \in 1..6
                     /\ result'.executed =
                            SubSeq(<<"pragma", "achievements", "daily_entries",
                                     "goals", "tasks", "users">>,
                                   1, result'.fail_at - 1)
                     /\ UNCHANGED <<achievements, daily_entries, goals, tasks,
                                    users>>]_vars

\* a user who had achievements, daily entries, goals and tasks has been
\* deleted while another user has rows in the store
C19_UserWithRowsDeleted ==
    /\ result.op = "delete_user"
    /\ result.outcome = "deleted"
    /\ \A t \in {"achievements", "daily_entries", "goals", "tasks", "users"} :
           result.rowcount[t] >= 1
    /\ ~Registered(result.delete_user_id)
    /\ \E e \in BagToSet(daily_entries) : e.user_id # result.delete_user_id
    /\ \E r \in BagToSet(tasks) : r.user_id # result.delete_user_id

\* C20: when an operation that inserts a task, changes the status of a task
\* or updates the progress of a goal has finished, its owner holds every
\* milestone whose metric (the completed count for a threshold <= 50, the
\* streak for a threshold > 50) is at least the threshold
C20_EvaluatedAfterEveryChange ==
    \A u \in Users :
        ( /\ result.op \in {"add_task", "update_task_status", "edit_save",
                            "update_goal_progress"}
          /\ result.user_id = u )
        => \A k \in 1..Len(milestones) :
               LET m      == milestones[k]
                   streak == calculate_streak(tasks, u, today)
                   met    == IF m.threshold <= 50
                             THEN completed_tasks(tasks, u) >= m.threshold
                             ELSE ~streak.raised /\ streak.value >= m.threshold
               IN met => Held(u, m.name)

\* the rows of a table that carry user_id = u
rows_of(B, u) == [r \in {x \in BagToSet(B) : x.user_id = u} |-> B[r]]

\* every read of user a gives in the store what it gives in the store that
\* holds the rows of a alone
reads_alike(T, G, A, now) ==
    \A a \in Users :
        LET c1 == check_achievements(T, G, A, a, now)
            c2 == check_achievements(rows_of(T, a), rows_of(G, a),
                                     rows_of(A, a), a, now)
        IN /\ get_productivity_stats(T, G, a, now)
               = get_productivity_stats(rows_of(T, a), rows_of(G, a), a, now)
           /\ calculate_streak(T, a, now)
               = calculate_streak(rows_of(T, a), a, now)
           /\ \A status \in Status \cup {""} :
                  get_tasks(T, a, status) = get_tasks(rows_of(T, a), a, status)
           /\ get_achievements(A, a) = get_achievements(rows_of(A, a), a)
           /\ c1.raised = c2.raised
           /\ c1.achievements (-) A = c2.achievements (-) rows_of(A, a)

\* C21: what get_productivity_stats, calculate_streak, get_tasks and
\* get_achievements return for a user, and the rows check_achievements
\* inserts for the user, are the same in the store and in the store without
\* the rows of every other user; and an operation requested by a user, also
\* one that names a row of another user, leaves the tasks, goals and
\* achievements of every other user as they were
C21_OwnerIsolation ==
    [][/\ steps = 0 => reads_alike(tasks, goals, achievements, today)
       /\ reads_alike(tasks', goals', achievements', today')
       /\ \A a \in Users : \A b \in Users \ {a} :
              (result'.user_id = a /\ result' # result)
              => /\ rows_of(tasks', b) = rows_of(tasks, b)
                 /\ rows_of(goals', b) = rows_of(goals, b)
                 /\ rows_of(achievements', b) = rows_of(achievements, b)]_vars

\* a user has requested update_task_status for a completed task of another
\* user, who still has it
C21_ForeignIdRequested ==
    /\ result.op = "update_task_status"
    /\ result.row.user_id # result.user_id
    /\ result.row.status = "completed"
    /\ result.new_status = "pending"
    /\ BagIn(result.row, tasks)
    /\ \E r \in BagToSet(tasks) : r.user_id = result.user_id

\* C22 (as stated): when the requests of all tabs have finished, the
\* achievements table holds at most one row per owner and name
C22_OneRowAfterConcurrentEvaluations ==
    (\A t \in Tabs : tabs[t].pc \in {"idle", "done", "failed"})
    => \A u \in Users : \A i \in 1..Len(milestones) :
          Rows(achievements, u, milestones[i].name) <= 1

\* C26: the step at which a statement of check_achievements fails changes no
\* table, so the write the request committed before stays and no row of the
\* failing evaluation is stored; rows enter the achievements table only at
\* the commit that ends an evaluation, all rows of the evaluation together
C26_FailureKeepsWriteAndAwardsNone ==
    [][/\ \A t \in Tabs :
            (tabs[t].pc \in {"connected", "loop"} /\ tabs'[t].pc = "failed")
            => /\ tasks' = tasks
               /\ goals' = goals
               /\ achievements' = achievements
       /\ achievements' # achievements
          => \E t \in Tabs : /\ tabs[t].pc = "loop"
                              /\ tabs'[t].pc = "done"
                              /\ achievements' = achievements (+) tabs[t].pending
       /\ (tasks' # tasks \/ goals' # goals)
          => \E t \in Tabs : tabs[t].pc = "idle" /\ tabs'[t].pc = "connected"]_vars

\* an evaluation entered by update_task_status has failed after its INSERT
\* of First Steps: the owner has the five completed tasks and no row
C26_FailedAfterInsert ==
    \E t \in Tabs :
        /\ tabs[t].pc = "failed"
        /\ tabs[t].op = "update_task_status"
        /\ tabs[t].pending # EmptyBag
        /\ completed_tasks(tasks, tabs[t].user_id) >= 5
        /\ ~Held(tabs[t].user_id, "First Steps")

\* C23: calculate_streak gives what it gives for a store that holds one
\* completed task for each distinct date of the owner's completed tasks and
\* nothing else: the number of completions on a date and the tasks that are
\* not completed have no part in it
C23_StreakDependsOnCompletionDates ==
    \A u \in Users :
        LET one_per_date ==
                SetToBag({[user_id |-> u, status |-> "completed",
                           completed_at |-> d] : d \in CompletionDates(u)})
        IN calculate_streak(tasks, u, today)
           = calculate_streak(one_per_date, u, today)

\* an owner with a streak has several completions on one date and a task
\* that was completed on a further date and is no longer completed
C23_RepeatedAndRevertedDates ==
    \E u \in Users :
        /\ \E r \in BagToSet(tasks) :
              r.user_id = u /\ r.status = "completed" /\ tasks[r] > 1
        /\ \E r \in BagToSet(tasks) :
              /\ r.user_id = u
              /\ r.status # "completed"
              /\ r.completed_at \notin CompletionDates(u) \cup {NULL}
        /\ calculate_streak(tasks, u, today).value > 0

\* C24 (as stated): update_task_status(task, 'completed') or a save of the
\* edit form with status completed, on a task that is completed, leaves the
\* tasks table, and so completed_at and the streak, as they were
C24_CompletedAtKeptWhileCompleted ==
    [][(/\ steps' = steps + 1
        /\ result'.op \in {"update_task_status", "edit_save"}
        /\ result'.row.user_id = result'.user_id
        /\ result'.row.status = "completed"
        /\ result'.new_status = "completed")
       => /\ tasks' = tasks
          /\ calculate_streak(tasks', result'.user_id, today')
             = calculate_streak(tasks, result'.user_id, today)]_vars

\* C25: a row that a step adds to the achievements table is added by an
\* operation that ends with check_achievements for the row's owner and did
\* not raise; it carries the name, description and icon of one entry of the
\* milestone list and the time of the call; and the count that the call
\* compares for that entry (completed tasks for the thresholds up to 50,
\* the streak for the others), taken after the write of the operation, is
\* at least the threshold.  Every row of the table carries the name,
\* description and icon of one entry of the list.
C25_EveryRowJustified ==
    [][/\ \A x \in BagToSet(achievements') :
            \E i \in 1..Len(milestones) :
                /\ x.name = milestones[i].name
                /\ x.description = milestones[i].description
                /\ x.icon = milestones[i].icon
       /\ \A x \in BagToSet(achievements') :
            (~BagIn(x, achievements) \/ achievements'[x] > achievements[x])
            => /\ result'.op \in CheckingOps
               /\ result'.user_id = x.user_id
               /\ ~result'.raised
               /\ x.earned_at = today'
               /\ \E i \in 1..Len(milestones) :
                     LET m == milestones[i]
                         compared ==
                             IF m.threshold <= 50
                             THEN completed_tasks(tasks', x.user_id)
                             ELSE calculate_streak(tasks', x.user_id, today').value
                     IN /\ x = NewAchievement(m, x.user_id, today')
                        /\ compared >= m.threshold]_vars

\* update_task_status has inserted the First Steps row of an owner who did
\* not have it
C25_RowInserted ==
    /\ result.op = "update_task_status"
    /\ "First Steps" \in result.awarded
    /\ Rows(achievements, result.user_id, "First Steps") = 1
    /\ completed_tasks(tasks, result.user_id) = 5

\* C27: a Delete User request changes the users table or a table of owned
\* rows only when the session is an admin session, the confirmation text is
\* DELETE, the selected account is in the users table and is not the acting
\* account; when all four hold and no statement fails the account is deleted
C27_DeletionGuards ==
    [][(steps' = steps + 1 /\ result'.op = "delete_user")
       => LET guards == /\ result'.is_admin
                        /\ result'.confirm_text = "DELETE"
                        /\ Registered(result'.delete_user_id)
                        /\ result'.delete_user_id # result'.user_id
          IN /\ ~guards => /\ users' = users
                           /\ tasks' = tasks
                           /\ goals' = goals
                           /\ daily_entries' = daily_entries
                           /\ achievements' = achievements
             /\ (guards /\ result'.fail_at = 0)
                => \A x \in users' : x.id # result'.delete_user_id]_vars

\* the admin has confirmed the deletion of the admin's own account: the
\* request is refused and the account is there
C27_SelfDeletionRefused ==
    /\ result.op = "delete_user"
    /\ result.is_admin
    /\ result.confirm_text = "DELETE"
    /\ result.delete_user_id = result.user_id
    /\ result.outcome = "self"
    /\ Registered(result.user_id)

\* the identity a session state carries
identity(s) == <<s.logged_in, s.user_id, s.username, s.is_admin>>

\* C28: the session is logged in only with the id, name and admin flag of
\* an account whose password was given in a successful login, and these
\* change only by such a login or by Logout; the stored credentials, while
\* there, are those of the logged-in session; after Logout the session has
\* logged_in false, no username, no user_id, is_admin false and no stored
\* credentials, so that the next run does not log in and shows the login
\* page; and Admin Panel is dispatched only in a session with is_admin
C28_SessionStateMachine ==
    [][/\ identity(session') # identity(session)
          => \/ /\ result'.op = "login"
                /\ \E x \in users :
                      /\ x.username = result'.username
                      /\ x.password_hash.password = result'.password
                      /\ identity(session')
                         = <<TRUE, x.id, x.username, x.is_admin>>
             \/ result'.op = "logout"
       /\ ~session'.logged_in
          => /\ identity(session') = <<FALSE, NoUser, NoName, FALSE>>
             /\ session'.stored = <<>>
       /\ session'.stored # <<>>
          => session'.stored
             = <<session'.user_id, session'.username, session'.is_admin>>
       /\ result'.op = "logout"
          => /\ session' = no_session
             /\ auto_login(session') = session'
       /\ (result'.op = "run" /\ ~session.logged_in)
          => result'.shown = "auth_page"
       /\ (result'.op = "dispatch" /\ result'.page = "Admin Panel")
          => session'.is_admin /\ session.is_admin]_vars

\* the admin logged in with Remember me and has logged out
C28_LoggedOutAfterRememberedLogin ==
    /\ result.op = "logout"
    /\ result.before.is_admin
    /\ result.before.stored # <<>>
    /\ session = no_session

\* C29: login_user returns the id, the name and the admin flag of the
\* account exactly when an account has the username and its stored hash is
\* the Argon2 hash or the SHA-256 digest of the password; otherwise it
\* returns (None, None, False) and the users table is as before.  When the
\* stored hash was the SHA-256 digest the account then has an Argon2 hash
\* of the password, nothing else is changed, and the same login succeeds
\* again.
C29_LoginExactlyOnMatch ==
    [][result'.op = "login"
       => LET matching == {x \in users :
                             /\ x.username = result'.username
                             /\ x.password_hash.password = result'.password
                             /\ x.password_hash.scheme \in {"argon2", "sha256"}}
          IN /\ matching = {}
                => /\ result'.returned = <<NoUser, NoName, FALSE>>
                   /\ users' = users
             /\ \A x \in matching :
                   /\ result'.returned = <<x.id, x.username, x.is_admin>>
                   /\ x.password_hash.scheme = "argon2" => users' = users
                   /\ x.password_hash.scheme = "sha256"
                      => /\ users' = (users \ {x})
                                      \cup {[x EXCEPT !.password_hash =
                                               [scheme |-> "argon2",
                                                password |-> result'.password]]}
                         /\ login_user(users', result'.username,
                                       result'.password).returned
                            = result'.returned
                         /\ login_user(users', result'.username,
                                       result'.password).users = users']_vars

\* bob, whose stored hash was a SHA-256 digest, has logged in and has an
\* Argon2 hash
C29_LegacyHashUpgraded ==
    /\ result.op = "login"
    /\ result.username = "bob"
    /\ result.returned = <<2, "bob", FALSE>>
    /\ session.logged_in
    /\ \E x \in users : x.username = "bob" /\ x.password_hash = argon2("bob-pw")

\* C30: the users table holds exactly one account named thedatadude, which
\* is an admin, and no two accounts with one username; a run of
\* init_database leaves the table as it is; register_user returns False
\* for a username that exists and leaves the table as it is, and otherwise
\* adds one account, which is no admin; after create_admin.py thedatadude
\* is the only admin
C30_AdminSetupIdempotent ==
    [][/\ Cardinality({x \in users' : x.username = AdminName}) = 1
       /\ \A x \in users' : x.username = AdminName => x.is_admin
       /\ \A x, y \in users' : x.username = y.username => x = y
       /\ result'.op = "init_database" => users' = users
       /\ result'.op = "register"
          => LET taken == \E x \in users : x.username = result'.username
             IN /\ result'.returned = ~taken
                /\ taken => users' = users
                /\ ~taken
                   => /\ Cardinality(users' \ users) = 1
                      /\ users \subseteq users'
                      /\ \A x \in users' \ users :
                            /\ x.username = result'.username
                            /\ ~x.is_admin
                            /\ x.password_hash.password = result'.password
       /\ result'.op = "create_admin"
          => {x.username : x \in {y \in users' : y.is_admin}} = {AdminName}]_vars

\* a sign-up with the username thedatadude was refused and a further
\* account is registered
C30_AdminNameRefused ==
    /\ result.op = "register"
    /\ result.username = AdminName
    /\ ~result.returned
    /\ \E x \in users : x.username = "carol" /\ ~x.is_admin

====
